---- MODULE Spec2Model ----
(***************************************************************************)
(* A model of the compiler symbol table of src/dev/src/idents.h            *)
(* (struct SymbolTable and the entities it owns: Ident, SharedField,       *)
(* Struct, Function).                                                      *)
(*                                                                         *)
(* Representation.  Every entity lives in its index table; a C++ pointer   *)
(* to an entity is modelled by the entity's position in that table         *)
(* (1-based, as TLA+ sequences are) and nullptr by NULL = 0.  The idx      *)
(* field of an entity is stored separately, exactly as the constructor     *)
(* call computes it (table.size() at creation, 0-based).  A std::map is a  *)
(* function from the finite set of names to pointers; a key that is not in *)
(* the map is NULL, except for the structs map, whose operator[] can       *)
(* insert a null entry, so that "absent" (ABSENT) and "present but null"   *)
(* (NULL) are told apart there.                                            *)
(*                                                                         *)
(* lex.Error never returns (it throws): an operation that reaches it stops *)
(* there, and the state is what the statements before the call made it.    *)
(* The variable last records the last call, its error and what it          *)
(* returned.                                                               *)
(***************************************************************************)
EXTENDS Integers, Sequences, FiniteSets, TLC

\* ------------------------------------------------------------------ bounds
MaxIdents == 4
MaxDepth == 3
MaxFuns == 3
MaxStructs == 3
MaxUses == 5
MaxEntities == 2

NULL == 0
ABSENT == -1

IdentNames == {"a", "b"}
FunNames == {"f", "g"}
StructNames == {"S", "T"}
FieldNames == {"a", "x"}
ArgCounts == {0, 1, 2}
Lines == {7}
Offsets == {5, 7, 65541}

NoErr == "ok"

VARIABLES
    idents,           \* map<string, Ident *>: the live binding of each name
    identtable,       \* vector<Ident *>: every Ident ever created
    identstack,       \* vector<Ident *>: the Idents of the open scopes
    scopelevels,      \* vector<size_t>: identstack.size() at each open ScopeStart
    withstack,        \* vector<pair<Type, Ident *>>
    withstacklevels,  \* vector<size_t>: withstack.size() at each open ScopeStart
    structs,          \* map<string, Struct *>
    structtable,      \* vector<Struct *>
    fields,           \* map<string, SharedField *>
    fieldtable,       \* vector<SharedField *>
    functions,        \* map<string, Function *>
    functiontable,    \* vector<Function *>
    uses_frame_state, \* bool
    filenames,        \* vector<string>
    code,             \* vector<int> &code, the caller's bytecode array
    linenumbers,      \* vector<LineInfo> &linenumbers, the caller's table
    ser,              \* the Serializer handed to Serialize: its buffer and cursor
    saved,            \* history: the live bindings at each open ScopeStart
    savedwith,        \* history: the with-stack at each open ScopeStart
    written,          \* history: what the writing Serialize call was given
    last              \* the last call: operation, arguments, error, result

identvars == <<idents, identtable, identstack, scopelevels>>
withvars == <<withstack, withstacklevels>>
structvars == <<structs, structtable>>
fieldvars == <<fields, fieldtable>>
funvars == <<functions, functiontable>>
servars == <<uses_frame_state, filenames, code, linenumbers, ser>>
vars == <<idents, identtable, identstack, scopelevels, withstack, withstacklevels,
          structs, structtable, fields, fieldtable, functions, functiontable,
          uses_frame_state, filenames, code, linenumbers, ser, saved, savedwith, written, last>>

Last(s) == s[Len(s)]
Front(s) == SubSeq(s, 1, Len(s) - 1)

\* The record of a call.  name: the name argument ("" if none); arg: an integer
\* argument (a pointer, an arity, an offset; 0 if none); err: NoErr or the error
\* thrown; ret, ret2: what the call returned (pointers or integers, 0 if nothing)
\* or a further argument of the call.
Call(op, name, arg, err, ret, ret2) ==
    [op |-> op, name |-> name, arg |-> arg, err |-> err, ret |-> ret, ret2 |-> ret2]

\* ------------------------------------------------------------------- Ident
\* Ident::Ident(name, line, idx, scope)
NewIdent(name, line, idx, sc) ==
    [name |-> name, idx |-> idx, line |-> line, scope |-> sc, prev |-> NULL, sf |-> NULL,
     single_assignment |-> TRUE, constant |-> FALSE, static_constant |-> FALSE,
     isprivate |-> FALSE]

\* Ident::Assign, the statements before the throw: single_assignment = false
AssignEffect(id) == [id EXCEPT !.single_assignment = FALSE]

\* Ident::Assign, the error: if (constant) lex.Error(...)
AssignError(id) == IF id.constant THEN "variable is constant" ELSE NoErr

\* ----------------------------------------------------- Struct, SharedField
\* Struct::Struct(name, idx); fields holds the SharedField * of each UniqueField
NewStruct(name, idx) ==
    [name |-> name, idx |-> idx, fields |-> <<>>, superclassidx |-> -1, readonly |-> FALSE]

\* Struct::Has: linear scan of the struct's fields for the SharedField
Has(st, fld) == \E i \in 1..Len(st.fields) : st.fields[i] = fld

\* SymbolTable::FieldUse: find, no insertion
FieldUse(name) == IF name \in DOMAIN fields THEN fields[name] ELSE NULL

\* The body of the loop of LookupWithStruct for one with-stack entry wp, with
\* acc the loop's state: the out-parameter id and whether lex.Error was reached.
WithStep(acc, wp, fld) ==
    IF acc.err # NoErr THEN acc
    ELSE IF Has(structtable[wp.type + 1], fld)
         THEN IF acc.id # NULL
              THEN [acc EXCEPT !.err = "access to ambiguous field"]
              ELSE [acc EXCEPT !.id = wp.id]
         ELSE acc

RECURSIVE WithScan(_, _, _)
WithScan(acc, ws, fld) ==
    IF ws = <<>> THEN acc
    ELSE WithScan(WithStep(acc, Head(ws), fld), Tail(ws), fld)

\* A variant of LookupWithStruct that scans the innermost scope's entries only
LookupWithStructInnermost(name) ==
    LET fld == FieldUse(name)
        from == IF withstacklevels = <<>> THEN 1 ELSE Last(withstacklevels) + 1
    IN
    IF fld = NULL THEN [err |-> NoErr, fld |-> NULL, id |-> NULL]
    ELSE LET r == WithScan([err |-> NoErr, id |-> NULL],
                           SubSeq(withstack, from, Len(withstack)), fld) IN
         IF r.err # NoErr THEN [err |-> r.err, fld |-> NULL, id |-> r.id]
         ELSE [err |-> NoErr, fld |-> (IF r.id # NULL THEN fld ELSE NULL), id |-> r.id]

\* SymbolTable::LookupWithStruct(name, lex, id), called with id == nullptr:
\* [err, fld, id] where fld is the returned SharedField * and id the out-parameter.
LookupWithStruct(name) ==
    LET fld == FieldUse(name) IN
    IF fld = NULL THEN [err |-> NoErr, fld |-> NULL, id |-> NULL]
    ELSE LET r == WithScan([err |-> NoErr, id |-> NULL], withstack, fld) IN
         IF r.err # NoErr THEN [err |-> r.err, fld |-> NULL, id |-> r.id]
         ELSE [err |-> NoErr, fld |-> (IF r.id # NULL THEN fld ELSE NULL), id |-> r.id]

\* ------------------------------------------------------- identifiers, scopes
\* SymbolTable::LookupLexMaybe
LookupLexMaybe(name) == idents[name]

\* A variant of SameScope that takes the nesting depth for the scope's snapshot
SameScopeByDepth(it) == Len(scopelevels) = identtable[it].scope

\* A variant of SameScope for which no binding is of the innermost scope
SameScopeNever(it) == FALSE

\* LookupLexDefOrDynScope line 242: scopelevels.back() == it->second->scope
SameScope(it) == Last(scopelevels) = identtable[it].scope

\* A variant of DeclIdent that numbers the Ident by the size of identstack
DeclIdentByStack(name, line) == NewIdent(name, line, Len(identstack), Last(scopelevels))

\* LookupLexDefOrDynScope line 236: the arguments of new Ident(...)
DeclIdent(name, line) == NewIdent(name, line, Len(identtable), Last(scopelevels))

\* LookupLexDefOrDynScope lines 239-245: the link of the new Ident to the live
\* binding it shadows (it), when the redefinition check passed
LinkPrev(ident, it, dynscope) ==
    IF it = NULL \/ dynscope THEN ident ELSE [ident EXCEPT !.prev = it]

\* A variant of FieldCollision that looks at the innermost scope's with-scopes
FieldCollisionInnermost(name) == LookupWithStructInnermost(name).fld # NULL

\* LookupLexDefOrDynScope line 234: if (LookupWithStruct(name, lex, ident))
FieldCollision(name) == LookupWithStruct(name).fld # NULL

\* A variant of DynReturn that returns the live binding of an enclosing scope
\* only
DynReturnOuterOnly(it, dynscope) ==
    dynscope /\ it # NULL /\ identtable[it].scope # Last(scopelevels)

\* LookupLexDefOrDynScope line 231: if (dynscope && it != idents.end()) return
DynReturn(it, dynscope) == dynscope /\ it # NULL

\* SymbolTable::LookupLexDefOrDynScope(name, line, lex, dynscope, sf).
\* scopelevels.back() needs an open scope: the caller opens one first.
Declare(name, line, dynscope, sf) ==
    /\ scopelevels # <<>>
    /\ LET it == idents[name]
           lws == LookupWithStruct(name)
           p == Len(identtable) + 1
           dyn == IF dynscope THEN 1 ELSE 0
       IN
       IF DynReturn(it, dynscope)
       THEN /\ last' = Call("Declare", name, dyn, NoErr, it, sf)
            /\ UNCHANGED identvars
       ELSE IF lws.err # NoErr
       THEN /\ last' = Call("Declare", name, dyn, lws.err, NULL, sf)
            /\ UNCHANGED identvars
       ELSE IF FieldCollision(name)
       THEN /\ last' = Call("Declare", name, dyn,
                            "cannot define variable with same name as field", NULL, sf)
            /\ UNCHANGED identvars
       ELSE IF it # NULL /\ ~dynscope /\ SameScope(it)
       THEN /\ last' = Call("Declare", name, dyn, "identifier redefinition", NULL, sf)
            /\ UNCHANGED identvars
       ELSE /\ Len(identtable) < MaxIdents
            /\ idents' = [idents EXCEPT ![name] = p]
            /\ identstack' = Append(identstack, p)
            /\ identtable' = Append(identtable,
                                    LinkPrev([DeclIdent(name, line) EXCEPT !.sf = sf],
                                             it, dynscope))
            /\ scopelevels' = scopelevels
            /\ last' = Call("Declare", name, dyn, NoErr, p, sf)
    /\ UNCHANGED <<withvars, structvars, fieldvars, funvars, servars, saved, savedwith, written>>

\* SymbolTable::ScopeStart
ScopeStart ==
    /\ Len(scopelevels) < MaxDepth
    /\ scopelevels' = Append(scopelevels, Len(identstack))
    /\ withstacklevels' = Append(withstacklevels, Len(withstack))
    /\ saved' = Append(saved, idents)
    /\ savedwith' = Append(savedwith, withstack)
    /\ last' = Call("ScopeStart", "", 0, NoErr, 0, 0)
    /\ UNCHANGED <<idents, identtable, identstack, withstack,
                   structvars, fieldvars, funvars, servars, written>>

\* A variant of PopBinding that erases the binding and ignores the prev link
PopBindingErase(ids, p) == [ids EXCEPT ![identtable[p].name] = NULL]

\* ScopeCleanup lines 315-321: the live-binding map after one Ident is popped
PopBinding(ids, p) ==
    LET ident == identtable[p] IN
    IF ids[ident.name] # NULL
    THEN IF ident.prev # NULL
         THEN [ids EXCEPT ![ident.name] = ident.prev]
         ELSE [ids EXCEPT ![ident.name] = NULL]
    ELSE ids

\* ScopeCleanup lines 313-324: while (identstack.size() > scopelevels.back())
RECURSIVE CleanupIdents(_, _, _)
CleanupIdents(ids, stack, level) ==
    IF Len(stack) > level
    THEN CleanupIdents(PopBinding(ids, Last(stack)), Front(stack), level)
    ELSE [idents |-> ids, identstack |-> stack]

\* A variant of CleanupWith that pops one entry at most
CleanupWithOne(ws, level) == IF Len(ws) > level THEN Front(ws) ELSE ws

\* ScopeCleanup line 327: while (withstack.size() > withstacklevels.back())
RECURSIVE CleanupWith(_, _)
CleanupWith(ws, level) ==
    IF Len(ws) > level THEN CleanupWith(Front(ws), level) ELSE ws

\* SymbolTable::ScopeCleanup.  scopelevels.back() needs an open scope.
ScopeCleanup ==
    /\ scopelevels # <<>>
    /\ LET r == CleanupIdents(idents, identstack, Last(scopelevels)) IN
       /\ idents' = r.idents
       /\ identstack' = r.identstack
    /\ scopelevels' = Front(scopelevels)
    /\ withstack' = CleanupWith(withstack, Last(withstacklevels))
    /\ withstacklevels' = Front(withstacklevels)
    /\ saved' = Front(saved)
    /\ savedwith' = Front(savedwith)
    /\ last' = Call("ScopeCleanup", "", 0, NoErr, 0, 0)
    /\ UNCHANGED <<identtable, structvars, fieldvars, funvars, servars, written>>

\* A variant of Pruned that takes every binding without a shadowed predecessor
PrunedUnshadowed(it) == identtable[it].prev = NULL

\* EndOfInclude line 350: if (it->second->isprivate)
Pruned(it) == identtable[it].isprivate

\* EndOfInclude line 352: assert(!it->second->prev), for every private binding
PrivateUnshadowed ==
    \A n \in IdentNames :
        (idents[n] # NULL /\ identtable[idents[n]].isprivate)
          => identtable[idents[n]].prev = NULL

\* SymbolTable::EndOfInclude; the assert is the caller's obligation
EndOfInclude ==
    /\ PrivateUnshadowed
    /\ idents' = [n \in IdentNames |->
                    IF idents[n] # NULL /\ Pruned(idents[n]) THEN NULL ELSE idents[n]]
    /\ last' = Call("EndOfInclude", "", 0, NoErr, 0, 0)
    /\ UNCHANGED <<identtable, identstack, scopelevels, withvars, structvars, fieldvars,
                   funvars, servars, saved, savedwith, written>>

\* Name::isprivate, read at line 350, is a public field: the parser sets it on
\* the Ident of a private definition.
SetPrivate(p) ==
    /\ p \in 1..Len(identtable)
    /\ ~identtable[p].isprivate
    /\ identtable' = [identtable EXCEPT ![p].isprivate = TRUE]
    /\ last' = Call("SetPrivate", identtable[p].name, p, NoErr, 0, 0)
    /\ UNCHANGED <<idents, identstack, scopelevels, withvars, structvars, fieldvars,
                   funvars, servars, saved, savedwith, written>>

\* Ident::Assign on the Ident p
Assign(p) ==
    /\ p \in 1..Len(identtable)
    /\ identtable' = [identtable EXCEPT ![p] = AssignEffect(@)]
    /\ last' = Call("Assign", identtable[p].name, p, AssignError(identtable[p]), 0, 0)
    /\ UNCHANGED <<idents, identstack, scopelevels, withvars, structvars, fieldvars,
                   funvars, servars, saved, savedwith, written>>

\* Ident::constant (line 47) is a public field: the parser sets it on the Ident
\* of a constant definition.
SetConstant(p) ==
    /\ p \in 1..Len(identtable)
    /\ ~identtable[p].constant
    /\ identtable' = [identtable EXCEPT ![p].constant = TRUE]
    /\ last' = Call("SetConstant", identtable[p].name, p, NoErr, 0, 0)
    /\ UNCHANGED <<idents, identstack, scopelevels, withvars, structvars, fieldvars,
                   funvars, servars, saved, savedwith, written>>

\* ------------------------------------------------------------ construction
\* ser: rbuf says whether the Serializer reads; buf is the artifact, one element
\* per ser(x) call; pos is the number of elements consumed by reading
NoSerializer == [rbuf |-> FALSE, buf |-> <<>>, pos |-> 0]

\* The name and idx of an entity, and those of the entities of a table
NameIdx(e) == [name |-> e.name, idx |-> e.idx]
NamesAndIdx(tbl) == [i \in 1..Len(tbl) |-> NameIdx(tbl[i])]

\* What a Serialize call is given to write: the members of the table that
\* Serialize names, and the caller's arrays c and ln
Given(c, ln) ==
    [uses_frame_state |-> uses_frame_state,
     identtable |-> NamesAndIdx(identtable), functiontable |-> NamesAndIdx(functiontable),
     structtable |-> NamesAndIdx(structtable), fieldtable |-> NamesAndIdx(fieldtable),
     code |-> c, filenames |-> filenames, linenumbers |-> ln]

NothingWritten ==
    [uses_frame_state |-> FALSE, identtable |-> <<>>, functiontable |-> <<>>,
     structtable |-> <<>>, fieldtable |-> <<>>, code |-> <<>>, filenames |-> <<>>,
     linenumbers |-> <<>>]

\* SymbolTable::SymbolTable(): empty maps and vectors, uses_frame_state(false)
Init ==
    /\ idents = [n \in IdentNames |-> NULL]
    /\ identtable = <<>>
    /\ identstack = <<>>
    /\ scopelevels = <<>>
    /\ withstack = <<>>
    /\ withstacklevels = <<>>
    /\ structs = [n \in StructNames |-> ABSENT]
    /\ structtable = <<>>
    /\ fields = [n \in FieldNames |-> NULL]
    /\ fieldtable = <<>>
    /\ functions = [n \in FunNames |-> NULL]
    /\ functiontable = <<>>
    /\ uses_frame_state = FALSE
    /\ filenames = <<>>
    /\ code = <<>>
    /\ linenumbers = <<>>
    /\ ser = NoSerializer
    /\ saved = <<>>
    /\ savedwith = <<>>
    /\ written = NothingWritten
    /\ last = Call("init", "", 0, NoErr, 0, 0)

\* ------------------------------------------------ lexical scoping: SpecScope
\* ScopeStart, declarations without dynamic scope, ScopeCleanup
DeclareLex == \E n \in IdentNames, l \in Lines : Declare(n, l, FALSE, NULL)

NextScope == ScopeStart \/ DeclareLex \/ ScopeCleanup
SpecScope == Init /\ [][NextScope]_vars

\* The Ident p was pushed on identstack since the innermost open ScopeStart
DeclaredHere(p) ==
    \E i \in (Last(scopelevels) + 1)..Len(identstack) : identstack[i] = p

\* The Ident p was pushed on identstack before the innermost open ScopeStart
DeclaredOutside(p) ==
    \E i \in 1..Last(scopelevels) : i <= Len(identstack) /\ identstack[i] = p

\* C1: the ScopeCleanup that matches a ScopeStart leaves LookupLexMaybe(name), for
\* every name, the binding (or the absence of one) that was live immediately
\* before that ScopeStart.
C1_CleanupRestoresBindings ==
    [][last'.op = "ScopeCleanup"
         => \A n \in IdentNames : LookupLexMaybe(n)' = Last(saved)[n]]_vars

\* A scope that shadowed a binding was closed and the shadowed Ident is live again.
C1_Witness ==
    /\ last.op = "ScopeCleanup"
    /\ \E n \in IdentNames, p \in 1..Len(identtable) :
          /\ idents[n] # NULL
          /\ identtable[p].prev = idents[n]
          /\ \A i \in 1..Len(identstack) : identstack[i] # p

\* C2: a declare without dynamic scope of a name whose live binding was created
\* in the innermost scope fails with the redefinition error; of a name whose
\* live binding was created in an enclosing scope it succeeds, the new Ident is
\* the live binding and its prev is the former live binding.
C2_RedefinitionOrShadow ==
    [][(last'.op = "Declare" /\ last'.arg = 0 /\ idents[last'.name] # NULL)
         => LET n == last'.name
                it == idents[n]
            IN /\ (DeclaredHere(it)
                     => (/\ last'.err = "identifier redefinition"
                         /\ idents' = idents))
               /\ (DeclaredOutside(it)
                     => (/\ last'.err = NoErr
                         /\ last'.ret = Len(identtable')
                         /\ Len(identtable') = Len(identtable) + 1
                         /\ idents'[n] = last'.ret
                         /\ identtable'[last'.ret].prev = it))]_vars

\* A redeclaration in the same scope has just failed, in a table where a
\* declaration in a deeper scope had succeeded and shadowed.
C2_Witness ==
    /\ last.op = "Declare"
    /\ last.err = "identifier redefinition"
    /\ \E p \in 1..Len(identtable) : identtable[p].prev # NULL

\* ------------------------------------------------------ Assign: SpecAssign
MaxAssignIdents == 2

DeclareForAssign ==
    /\ Len(identtable) < MaxAssignIdents
    /\ \E n \in IdentNames, l \in Lines : Declare(n, l, FALSE, NULL)
AssignAny == \E p \in 1..MaxAssignIdents : Assign(p)
SetConstantAny == \E p \in 1..MaxAssignIdents : SetConstant(p)

NextAssign ==
    ScopeStart \/ DeclareForAssign \/ ScopeCleanup \/ AssignAny \/ SetConstantAny
SpecAssign == Init /\ [][NextAssign]_vars

\* C3: Assign on an Ident whose constant flag is set fails with the
\* constant-assignment error and leaves every field of the Ident as it was.
C3_AssignConstantMutatesNothing ==
    [][(last'.op = "Assign" /\ identtable[last'.arg].constant)
         => /\ last'.err = "variable is constant"
            /\ identtable' = identtable]_vars

\* --------------------------------------------------------------- functions
\* Function::Function(name, idx, nargs, scopelevel)
NewFunction(name, idx, nargs, sl) ==
    [name |-> name, idx |-> idx, nargs |-> nargs, bytecodestart |-> 0, sibf |-> NULL,
     scopelevel |-> sl, retvals |-> 0]

\* SymbolTable::FindFunction
FindFunction(name) == functions[name]

\* A variant of FindArity that looks at the chain's head only
FindArityHeadOnly(f, nargs) ==
    IF f # NULL /\ functiontable[f].nargs = nargs THEN f ELSE NULL

\* FunctionDecl lines 415-417: for (auto f = fit->second; f; f = f->sibf)
RECURSIVE FindArity(_, _)
FindArity(f, nargs) ==
    IF f = NULL THEN NULL
    ELSE IF functiontable[f].nargs = nargs THEN f
    ELSE FindArity(functiontable[f].sibf, nargs)

\* A variant of LinkFunction that makes the new Function the head of the chain
LinkFunctionAsHead(name, fit, f) ==
    LET p == Len(functiontable) + 1 IN
    [table |-> Append(functiontable, [f EXCEPT !.sibf = fit]),
     map |-> [functions EXCEPT ![name] = p]]

\* FunctionDecl lines 421-431: push_back, then the link into the chain of the
\* registered Function fit, or the registration when there is none
LinkFunction(name, fit, f) ==
    LET p == Len(functiontable) + 1 IN
    IF fit # NULL
    THEN [table |-> [Append(functiontable, [f EXCEPT !.sibf = functiontable[fit].sibf])
                        EXCEPT ![fit].sibf = p],
          map |-> functions]
    ELSE [table |-> Append(functiontable, f),
          map |-> [functions EXCEPT ![name] = p]]

\* A variant of DifferentScopeLevel that compares with the innermost scope's
\* snapshot of identstack
DifferentScopeLevelBySnapshot(fit) ==
    functiontable[fit].scopelevel # (IF scopelevels = <<>> THEN 0 ELSE Last(scopelevels))

\* FunctionDecl line 412: fit->second->scopelevel != int(scopelevels.size())
DifferentScopeLevel(fit) == functiontable[fit].scopelevel # Len(scopelevels)

\* SymbolTable::FunctionDecl(name, nargs, lex)
FunctionDecl(name, nargs) ==
    /\ LET fit == functions[name]
           found == FindArity(fit, nargs)
           r == LinkFunction(name, fit,
                             NewFunction(name, Len(functiontable), nargs, Len(scopelevels)))
       IN
       IF fit # NULL /\ DifferentScopeLevel(fit)
       THEN /\ last' = Call("FunctionDecl", name, nargs,
                            "variation of function at a different scope level", NULL, 0)
            /\ UNCHANGED funvars
       ELSE IF fit # NULL /\ found # NULL
       THEN /\ last' = Call("FunctionDecl", name, nargs, NoErr, found, 0)
            /\ UNCHANGED funvars
       ELSE /\ Len(functiontable) < MaxFuns
            /\ functiontable' = r.table
            /\ functions' = r.map
            /\ last' = Call("FunctionDecl", name, nargs, NoErr, Len(functiontable) + 1, 0)
    /\ UNCHANGED <<identvars, withvars, structvars, fieldvars, servars, saved, savedwith, written>>

\* A variant of EraseFun that clears the map
EraseFunAll(map, name) == [n \in DOMAIN map |-> NULL]

\* UnregisterFun lines 340-342: find, and erase if found
EraseFun(map, name) == IF map[name] # NULL THEN [map EXCEPT ![name] = NULL] ELSE map

\* SymbolTable::UnregisterFun(f); ret records what functions.find(f->name) found
UnregisterFun(f) ==
    /\ f \in 1..Len(functiontable)
    /\ functions' = EraseFun(functions, functiontable[f].name)
    /\ last' = Call("UnregisterFun", functiontable[f].name, f, NoErr,
                    functions[functiontable[f].name], 0)
    /\ UNCHANGED <<functiontable, identvars, withvars, structvars, fieldvars, servars, saved, savedwith, written>>

\* ------------------------------------------------------ functions: SpecFun
\* FunctionDecl and UnregisterFun at one scope level (no scope is opened)
FunctionDeclAny == \E n \in FunNames, a \in ArgCounts : FunctionDecl(n, a)
UnregisterFunAny == \E f \in 1..MaxFuns : UnregisterFun(f)

NextFun == FunctionDeclAny \/ UnregisterFunAny
SpecFun == Init /\ [][NextFun]_vars

\* The Functions reached by walking sibf from f, in the table tbl
RECURSIVE Chain(_, _)
Chain(tbl, f) == IF f = NULL THEN <<>> ELSE <<f>> \o Chain(tbl, tbl[f].sibf)

ChainSet(tbl, f) == {Chain(tbl, f)[i] : i \in 1..Len(Chain(tbl, f))}

\* A FunctionDecl step that allocated a Function for a name that had one registered
AllocatesSibling ==
    /\ last'.op = "FunctionDecl"
    /\ last'.err = NoErr
    /\ functions[last'.name] # NULL
    /\ Len(functiontable') = Len(functiontable) + 1

\* C4 as stated: the Function allocated for a name that already has a registered
\* Function is the new head of the by-name chain: FindFunction(name) returns it
\* and its sibf leads to the Functions registered before.
C4_NewFunctionIsHead ==
    [][AllocatesSibling
         => /\ functions'[last'.name] = last'.ret
            /\ functiontable'[last'.ret].sibf = functions[last'.name]]_vars

\* C4 amended: the Function allocated for a name that already has a registered
\* Function is linked directly behind the head of the by-name chain:
\* FindFunction(name) still returns the Function it returned before, whose sibf
\* is now the new Function, and the new Function's sibf is the head's former sibf.
C4_NewFunctionBehindHead ==
    [][AllocatesSibling
         => LET head == functions[last'.name] IN
            /\ last'.ret = Len(functiontable')
            /\ functions'[last'.name] = head
            /\ functiontable'[head].sibf = last'.ret
            /\ functiontable'[last'.ret].sibf = functiontable[head].sibf
            /\ \A q \in 1..Len(functiontable) :
                  q # head => functiontable'[q] = functiontable[q]]_vars

\* A third arity of one name was declared: the new Function sits between the
\* head and the head's former sibling.
C4_Witness ==
    /\ last.op = "FunctionDecl"
    /\ last.err = NoErr
    /\ functions[last.name] # NULL
    /\ functions[last.name] # last.ret
    /\ functiontable[functions[last.name]].sibf = last.ret
    /\ functiontable[last.ret].sibf # NULL

\* The Functions of the chain of f, in the table tbl, whose nargs is a
WithArity(tbl, f, a) == {q \in ChainSet(tbl, f) : tbl[q].nargs = a}

\* No two Functions reached by walking sibf from f have the same nargs
DistinctArities(tbl, f) ==
    \A i, j \in 1..Len(Chain(tbl, f)) :
        i # j => tbl[Chain(tbl, f)[i]].nargs # tbl[Chain(tbl, f)[j]].nargs

\* C5: FunctionDecl(name, n) for a name whose chain (from FindFunction(name))
\* already holds a Function of n arguments returns that Function and leaves
\* functiontable, the name map and all sibling links unchanged; otherwise it
\* returns a new Function of n arguments and the chain from FindFunction(name)
\* then holds it together with every Function it held before.  No sibling
\* chain ever holds two Functions with the same nargs.
C5_DeclIdempotentPerArity ==
    /\ [][(last'.op = "FunctionDecl" /\ last'.err = NoErr)
            => LET n == last'.name
                   a == last'.arg
                   before == ChainSet(functiontable, functions[n])
                   after == ChainSet(functiontable', functions'[n])
               IN IF WithArity(functiontable, functions[n], a) # {}
                  THEN /\ last'.ret \in WithArity(functiontable, functions[n], a)
                       /\ functiontable' = functiontable
                       /\ functions' = functions
                  ELSE /\ last'.ret \notin 1..Len(functiontable)
                       /\ functiontable'[last'.ret].nargs = a
                       /\ after = before \cup {last'.ret}]_vars
    /\ [](\A f \in 1..Len(functiontable) : DistinctArities(functiontable, f))

\* FunctionDecl has just returned a Function that is neither the head of its
\* chain nor the Function created last: a second declaration of a sibling arity.
C5_Witness ==
    /\ last.op = "FunctionDecl"
    /\ last.err = NoErr
    /\ last.ret # functions[last.name]
    /\ last.ret \in ChainSet(functiontable, functions[last.name])
    /\ last.ret < Len(functiontable)

\* ----------------------------------------------------------------- structs
\* map<string, Struct *>::operator[]: the map after structs[name] was evaluated
\* (a key that was not there is inserted with a null pointer)
Subscript(map, name) == IF map[name] = ABSENT THEN [map EXCEPT ![name] = NULL] ELSE map

\* A variant of DeclStruct that numbers the Struct by the count of live mappings
DeclStructByLiveCount(name) ==
    NewStruct(name, Cardinality({n \in StructNames : structs[n] \notin {ABSENT, NULL}}))

\* StructDecl line 364: new Struct(name, structtable.size())
DeclStruct(name) == NewStruct(name, Len(structtable))

\* SymbolTable::StructDecl(name, lex)
StructDecl(name) ==
    /\ LET st == Subscript(structs, name)[name] IN
       IF st # NULL
       THEN /\ last' = Call("StructDecl", name, 0, "double declaration of type", NULL, 0)
            /\ structs' = Subscript(structs, name)
            /\ structtable' = structtable
       ELSE /\ Len(structtable) < MaxStructs
            /\ structs' = [structs EXCEPT ![name] = Len(structtable) + 1]
            /\ structtable' = Append(structtable, DeclStruct(name))
            /\ last' = Call("StructDecl", name, 0, NoErr, Len(structtable) + 1, 0)
    /\ UNCHANGED <<identvars, withvars, fieldvars, funvars, servars, saved, savedwith, written>>

\* SymbolTable::StructUse(name, lex): [err, ret, map], map the structs map afterwards
StructUseOutcome(map, name) ==
    LET st == Subscript(map, name)[name] IN
    [err |-> IF st = NULL THEN "unknown type" ELSE NoErr,
     ret |-> st,
     map |-> Subscript(map, name)]

StructUse(name) ==
    /\ structs' = StructUseOutcome(structs, name).map
    /\ last' = Call("StructUse", name, 0, StructUseOutcome(structs, name).err,
                    StructUseOutcome(structs, name).ret, 0)
    /\ UNCHANGED <<structtable, identvars, withvars, fieldvars, funvars, servars, saved, savedwith, written>>

\* StructIdx lines 379-384: the scan of the table tbl from its front; nargs is
\* the caller's variable, written only when a Struct called name is found
RECURSIVE StructIdxScan(_, _, _)
StructIdxScan(tbl, name, nargs) ==
    IF tbl = <<>> THEN [ret |-> -1, nargs |-> nargs]
    ELSE IF Head(tbl).name = name
         THEN [ret |-> Head(tbl).idx, nargs |-> Len(Head(tbl).fields)]
         ELSE StructIdxScan(Tail(tbl), name, nargs)

\* SymbolTable::StructIdx(name, nargs)
StructIdx(name, nargs) ==
    /\ last' = Call("StructIdx", name, nargs, NoErr,
                    StructIdxScan(structtable, name, nargs).ret,
                    StructIdxScan(structtable, name, nargs).nargs)
    /\ UNCHANGED <<identvars, withvars, structvars, fieldvars, funvars, servars,
                   saved, savedwith, written>>

\* SymbolTable::UnregisterStruct(st); the assert is the caller's obligation
UnregisterStruct(st) ==
    /\ st \in 1..Len(structtable)
    /\ structs[structtable[st].name] # ABSENT
    /\ structs' = [structs EXCEPT ![structtable[st].name] = ABSENT]
    /\ last' = Call("UnregisterStruct", structtable[st].name, st, NoErr, 0, 0)
    /\ UNCHANGED <<structtable, identvars, withvars, fieldvars, funvars, servars, saved, savedwith, written>>

\* ------------------------------------------------------------------ fields
\* The conversion of an int to short (FieldOffset's members are short)
ToShort(x) == ((x + 32768) % 65536) - 32768

\* FieldOffset::FieldOffset(int _si, int _o)
FieldOffset(si, o) == [structidx |-> ToShort(si), offset |-> ToShort(o)]

\* SharedField::SharedField(name, idx)
NewSharedField(name, idx) ==
    [name |-> name, idx |-> idx, offsets |-> <<>>, numunique |-> 0]

\* A variant of NewFieldUse that compares the offset with the last entry only
NewFieldUseLastOnly(sf, nfo) ==
    [sf EXCEPT !.numunique = IF sf.offsets # <<>> /\ Last(sf.offsets).offset = nfo.offset
                             THEN @ ELSE @ + 1,
               !.offsets = Append(@, nfo)]

\* SharedField::NewFieldUse(nfo)
NewFieldUse(sf, nfo) ==
    [sf EXCEPT !.numunique = IF \E i \in 1..Len(sf.offsets) : sf.offsets[i].offset = nfo.offset
                             THEN @ ELSE @ + 1,
               !.offsets = Append(@, nfo)]

\* FieldDecl lines 389-395: [table, map, fld] after the SharedField called name
\* was looked up or created
FieldLookupOrCreate(name) ==
    IF fields[name] # NULL
    THEN [table |-> fieldtable, map |-> fields, fld |-> fields[name]]
    ELSE [table |-> Append(fieldtable, NewSharedField(name, Len(fieldtable))),
          map |-> [fields EXCEPT ![name] = Len(fieldtable) + 1],
          fld |-> Len(fieldtable) + 1]

\* The number of entries in the offsets logs of all SharedFields
RECURSIVE TotalUses(_)
TotalUses(tbl) == IF tbl = <<>> THEN 0 ELSE Len(Head(tbl).offsets) + TotalUses(Tail(tbl))

\* SymbolTable::FieldDecl(name, idx, st, lex): what it changes
FieldDeclEffect(name, idx, st) ==
    LET r == FieldLookupOrCreate(name) IN
    /\ fieldtable' = [r.table EXCEPT
                         ![r.fld] = NewFieldUse(@, FieldOffset(structtable[st].idx, idx))]
    /\ fields' = r.map
    /\ last' = Call("FieldDecl", name, idx, NoErr, r.fld, st)

\* SymbolTable::FieldDecl(name, idx, st, lex)
FieldDecl(name, idx, st) ==
    /\ st \in 1..Len(structtable)
    /\ TotalUses(fieldtable) < MaxUses
    /\ FieldDeclEffect(name, idx, st)
    /\ UNCHANGED <<identvars, withvars, structvars, funvars, servars, saved, savedwith, written>>

\* The use FieldDecl is made for: the parser declares the next field of the
\* record type st and appends UniqueField(type, &FieldDecl(name, fields.size(),
\* st)) to st->fields (Struct::fields is public; a record type names a field once).
StructFieldDecl(name, st) ==
    /\ st \in 1..Len(structtable)
    /\ TotalUses(fieldtable) < MaxUses
    /\ \A i \in 1..Len(structtable[st].fields) :
          fieldtable[structtable[st].fields[i]].name # name
    /\ FieldDeclEffect(name, Len(structtable[st].fields), st)
    /\ structtable' = [structtable EXCEPT
                          ![st].fields = Append(@, FieldLookupOrCreate(name).fld)]
    /\ UNCHANGED <<structs, identvars, withvars, funvars, servars, saved, savedwith, written>>

\* ------------------------------------------------------------- with-scopes
\* A variant of TypeOnWithStack that scans the innermost scope's entries only
TypeOnWithStackInnermost(t) ==
    \E i \in 1..Len(withstack) :
        /\ withstacklevels # <<>> => i > Last(withstacklevels)
        /\ withstack[i].type = t

\* AddWithStruct line 280: for (auto &wp : withstack) if (wp.first.idx == t.idx)
TypeOnWithStack(t) == \E i \in 1..Len(withstack) : withstack[i].type = t

\* SymbolTable::AddWithStruct(t, id, lex); t is a record type, t.idx its Struct
AddWithStruct(t, id) ==
    /\ t \in 0..(Len(structtable) - 1)
    /\ id \in 1..Len(identtable)
    /\ IF TypeOnWithStack(t)
       THEN /\ last' = Call("AddWithStruct", "", t, "type used twice in the same scope", 0, id)
            /\ withstack' = withstack
       ELSE /\ withstack' = Append(withstack, [type |-> t, id |-> id])
            /\ last' = Call("AddWithStruct", "", t, NoErr, 0, id)
    /\ UNCHANGED <<withstacklevels, identvars, structvars, fieldvars, funvars, servars, saved, savedwith, written>>

\* A call of SymbolTable::LookupWithStruct(name, lex, id) with id == nullptr
LookupWithStructCall(name) ==
    /\ last' = Call("LookupWithStruct", name, 0, LookupWithStruct(name).err,
                    LookupWithStruct(name).fld, LookupWithStruct(name).id)
    /\ UNCHANGED <<identvars, withvars, structvars, fieldvars, funvars, servars, saved, savedwith, written>>

\* ---------------------------------------------- field offsets: SpecField
\* FieldDecl for the fields of the Structs declared so far
MaxFieldStructs == 1

StructDeclForField ==
    /\ Len(structtable) < MaxFieldStructs
    /\ \E n \in StructNames : StructDecl(n)
FieldDeclAny ==
    \E n \in FieldNames, o \in Offsets, st \in 1..MaxStructs : FieldDecl(n, o, st)

NextField == StructDeclForField \/ FieldDeclAny
SpecField == Init /\ [][NextField]_vars

\* The distinct offset values among the entries of a SharedField's offsets log
OffsetValues(sf) == {sf.offsets[i].offset : i \in 1..Len(sf.offsets)}

\* The length of the offsets log of the SharedField f in the table tbl (0 when
\* the SharedField does not exist yet)
LogLen(tbl, f) == IF f \in 1..Len(tbl) THEN Len(tbl[f].offsets) ELSE 0

\* C6: numunique of every SharedField is the number of distinct offset values in
\* its offsets log, whatever the order of registration, and every FieldDecl
\* adds exactly one entry to the log of the SharedField it returns and none to
\* any other log.
C6_NumUniqueCountsDistinctOffsets ==
    /\ [](\A f \in 1..Len(fieldtable) :
             fieldtable[f].numunique = Cardinality(OffsetValues(fieldtable[f])))
    /\ [][last'.op = "FieldDecl"
            => /\ LogLen(fieldtable', last'.ret) = LogLen(fieldtable, last'.ret) + 1
               /\ Last(fieldtable'[last'.ret].offsets).offset = ToShort(last'.arg)
               /\ \A f \in 1..Len(fieldtable') :
                     f # last'.ret => LogLen(fieldtable', f) = LogLen(fieldtable, f)]_vars

\* The offsets 5, 5, 7, 5, 7 were registered on one SharedField in that order
C6_Witness ==
    \E f \in 1..Len(fieldtable) :
        /\ Len(fieldtable[f].offsets) = 5
        /\ [i \in 1..5 |-> fieldtable[f].offsets[i].offset] = <<5, 5, 7, 5, 7>>
        /\ fieldtable[f].numunique = 2

\* ------------------------------------------------- with-scopes: SpecWith
\* Record types with fields, Idents, with-scopes in nested scopes
MaxWithIdents == 2
MaxWithDepth == 2

ScopeStartWith == Len(scopelevels) < MaxWithDepth /\ ScopeStart
DeclareWith ==
    /\ Len(identtable) < MaxWithIdents
    /\ \E n \in IdentNames, l \in Lines : Declare(n, l, FALSE, NULL)
\* The record types are declared, each with its fields before the next type,
\* before the first scope is opened.
TypesPhase == scopelevels = <<>> /\ identtable = <<>>
StructDeclWith == TypesPhase /\ \E n \in StructNames : StructDecl(n)
StructFieldDeclWith ==
    TypesPhase /\ \E n \in FieldNames : StructFieldDecl(n, Len(structtable))
\* The Ident a with-scope goes through is the one declared last.
AddWithStructAny ==
    /\ identstack # <<>>
    /\ \E t \in 0..(MaxStructs - 1) : AddWithStruct(t, Last(identstack))
LookupWithStructAny == \E n \in FieldNames : LookupWithStructCall(n)

NextWith ==
    \/ ScopeStartWith \/ ScopeCleanup \/ DeclareWith \/ StructDeclWith
    \/ StructFieldDeclWith \/ AddWithStructAny \/ LookupWithStructAny
SpecWith == Init /\ [][NextWith]_vars

\* The with-stack entries whose record type declares a field called name
Matches(name) ==
    {i \in 1..Len(withstack) :
        \E k \in 1..Len(structtable[withstack[i].type + 1].fields) :
            fieldtable[structtable[withstack[i].type + 1].fields[k]].name = name}

\* C7: LookupWithStruct(name) looks at every with-stack entry, of all open
\* scopes: with two or more entries whose record type declares the field called
\* name it fails with the ambiguous-field error; with exactly one it returns the
\* SharedField and that entry's Ident; with none (or no such SharedField) it
\* returns nothing, without error.
C7_LookupWithStructWholeStack ==
    last.op = "LookupWithStruct"
      => LET M == Matches(last.name) IN
         /\ Cardinality(M) >= 2 => last.err = "access to ambiguous field"
         /\ Cardinality(M) = 1
              => /\ last.err = NoErr
                 /\ last.ret = fields[last.name]
                 /\ last.ret # NULL
                 /\ \A i \in M : last.ret2 = withstack[i].id
         /\ Cardinality(M) = 0
              => /\ last.err = NoErr
                 /\ last.ret = NULL

\* The lookup was ambiguous between a with-scope of an enclosing scope and one
\* of the innermost scope.
C7_Witness ==
    /\ last.op = "LookupWithStruct"
    /\ last.err = "access to ambiguous field"
    /\ withstacklevels # <<>>
    /\ \E i, j \in Matches(last.name) :
          i <= Last(withstacklevels) /\ j > Last(withstacklevels)

\* ---------------------------------------------------- structs: SpecStruct
StructDeclAny == \E n \in StructNames : StructDecl(n)
StructUseAny == \E n \in StructNames : StructUse(n)
UnregisterStructAny == \E st \in 1..MaxStructs : UnregisterStruct(st)

NextStruct == StructDeclAny \/ StructUseAny \/ UnregisterStructAny
SpecStruct == Init /\ [][NextStruct]_vars

\* The name has a live struct mapping: it is in the map, with a Struct
LiveStruct(map, name) == map[name] \notin {ABSENT, NULL}

\* C9: StructDecl(name) for a name with no live struct mapping creates a Struct
\* whose idx is the number of Structs created before it, which is its position
\* in structtable, and StructUse(name) then returns that Struct; StructDecl(name)
\* while the mapping is live fails with the double-declaration error and leaves
\* structtable unchanged.
C9_StructDeclIndexAndDuplicate ==
    [][last'.op = "StructDecl"
         => IF LiveStruct(structs, last'.name)
            THEN /\ last'.err = "double declaration of type"
                 /\ structtable' = structtable
            ELSE /\ last'.err = NoErr
                 /\ Len(structtable') = Len(structtable) + 1
                 /\ SubSeq(structtable', 1, Len(structtable)) = structtable
                 /\ last'.ret = Len(structtable')
                 /\ structtable'[last'.ret].name = last'.name
                 /\ structtable'[last'.ret].idx = Len(structtable)
                 /\ StructUseOutcome(structs', last'.name).err = NoErr
                 /\ StructUseOutcome(structs', last'.name).ret = last'.ret]_vars

\* A second StructDecl of a live name has just failed; the live Struct is the
\* third ever created, after an earlier Struct was unregistered.
C9_Witness ==
    /\ last.op = "StructDecl"
    /\ last.err = "double declaration of type"
    /\ LiveStruct(structs, last.name)
    /\ structtable[structs[last.name]].idx = 2
    /\ Len(structtable) = 3
    /\ \E n \in StructNames : ~LiveStruct(structs, n)

\* ------------------------------------------ the index tables: SpecTables
\* Every operation that declares, registers or unregisters, on a table of at
\* most MaxEntities entities in scopes nested at most MaxTablesDepth deep
MaxTablesDepth == 1

TotalEntities ==
    Len(identtable) + Len(structtable) + Len(fieldtable) + Len(functiontable)

ScopeStartTables == Len(scopelevels) < MaxTablesDepth /\ ScopeStart
DeclareTables ==
    /\ \E n \in IdentNames, l \in Lines, d \in BOOLEAN : Declare(n, l, d, NULL)
    /\ TotalEntities' <= MaxEntities
StructDeclTables ==
    /\ TypesPhase
    /\ \E n \in StructNames : StructDecl(n)
    /\ TotalEntities' <= MaxEntities
StructFieldDeclTables ==
    /\ TypesPhase
    /\ \E n \in FieldNames : StructFieldDecl(n, Len(structtable))
    /\ TotalEntities' <= MaxEntities
FunctionDeclTables ==
    /\ \E n \in FunNames, a \in ArgCounts : FunctionDecl(n, a)
    /\ TotalEntities' <= MaxEntities

NextTables ==
    \/ ScopeStartTables \/ ScopeCleanup \/ DeclareTables
    \/ StructDeclTables \/ UnregisterStructAny
    \/ StructFieldDeclTables \/ AddWithStructAny
    \/ FunctionDeclTables \/ UnregisterFunAny
SpecTables == Init /\ [][NextTables]_vars

\* table[e.idx] is e, for every entity e of the table
IndexedByIdx(tbl) == \A i \in 1..Len(tbl) : tbl[i].idx = i - 1

\* The table new holds the entities of the table old at the same positions
\* (an entity is told by its name and idx) and possibly more behind them
Extends(new, old) ==
    /\ Len(new) >= Len(old)
    /\ \A i \in 1..Len(old) : new[i].name = old[i].name /\ new[i].idx = old[i].idx

\* C10: in every reachable state, after a failed declaration too, each of the
\* four index tables has table[e.idx] = e for every entity in it, and no
\* operation removes or reorders an entry of a table.
C10_TablesIndexedAppendOnly ==
    /\ [](/\ IndexedByIdx(identtable)
          /\ IndexedByIdx(structtable)
          /\ IndexedByIdx(fieldtable)
          /\ IndexedByIdx(functiontable))
    /\ [][/\ Extends(identtable', identtable)
          /\ Extends(structtable', structtable)
          /\ Extends(fieldtable', fieldtable)
          /\ Extends(functiontable', functiontable)]_vars

\* A declare has just failed with the redefinition error, after the scope of an
\* earlier Ident was closed: identtable is longer than identstack.
C10_Witness ==
    /\ last.op = "Declare"
    /\ last.err = "identifier redefinition"
    /\ Len(identtable) = 2
    /\ Len(identstack) = 1

\* ----------------------------------------------------------- serialization
\* The build stamp of this compiler (__DATE__, line 456) and that of another build
CurVers == "Nov  1 2026"
OtherVers == "Oct 31 2026"

\* Name::Serialize and the Serialize of each entity: what ser(vector) writes
\* for one element
SerIdent(id) ==
    [name |-> id.name, idx |-> id.idx, line |-> id.line,
     static_constant |-> id.static_constant]
SerFunction(f) ==
    [name |-> f.name, idx |-> f.idx, nargs |-> f.nargs,
     bytecodestart |-> f.bytecodestart, retvals |-> f.retvals]
SerStruct(st) ==
    [name |-> st.name, idx |-> st.idx, superclassidx |-> st.superclassidx,
     readonly |-> st.readonly]
SerName(e) == [name |-> e.name, idx |-> e.idx]

\* A variant of LoadIdent that leaves idx as the default constructor set it
LoadIdentDefaultIdx(r) ==
    [NewIdent("", -1, 0, -1) EXCEPT !.name = r.name, !.line = r.line,
                                   !.static_constant = r.static_constant]

\* What reading makes of one element: the default-constructed entity with the
\* serialized members read into it
LoadIdent(r) ==
    [NewIdent("", -1, 0, -1) EXCEPT !.name = r.name, !.idx = r.idx, !.line = r.line,
                                   !.static_constant = r.static_constant]
LoadFunction(r) ==
    [NewFunction("", 0, -1, -1) EXCEPT !.name = r.name, !.idx = r.idx, !.nargs = r.nargs,
                                      !.bytecodestart = r.bytecodestart,
                                      !.retvals = r.retvals]
LoadStruct(r) ==
    [NewStruct("", 0) EXCEPT !.name = r.name, !.idx = r.idx,
                            !.superclassidx = r.superclassidx, !.readonly = r.readonly]
LoadSharedField(r) == [NewSharedField("", 0) EXCEPT !.name = r.name, !.idx = r.idx]

Map(F(_), seq) == [i \in 1..Len(seq) |-> F(seq[i])]

\* SymbolTable::Serialize with a writing Serializer: the artifact, in the order
\* of the ser(...) calls of lines 458-470
SerializeWrite(c, ln) ==
    <<CurVers, uses_frame_state, Map(SerIdent, identtable), Map(SerFunction, functiontable),
      Map(SerStruct, structtable), Map(SerName, fieldtable), c, filenames, ln>>

\* The members Serialize can write to, as they are
Unread(err, pos) ==
    [err |-> err, pos |-> pos, uses_frame_state |-> uses_frame_state,
     identtable |-> identtable, functiontable |-> functiontable,
     structtable |-> structtable, fieldtable |-> fieldtable,
     code |-> code, filenames |-> filenames, linenumbers |-> linenumbers]

\* The members after every element of the artifact buf was read
ReadAll(buf, err) ==
    [err |-> err, pos |-> 9, uses_frame_state |-> buf[2],
     identtable |-> Map(LoadIdent, buf[3]), functiontable |-> Map(LoadFunction, buf[4]),
     structtable |-> Map(LoadStruct, buf[5]), fieldtable |-> Map(LoadSharedField, buf[6]),
     code |-> buf[7], filenames |-> buf[8], linenumbers |-> buf[9]]

VersionError == "cannot load bytecode from a different version of the compiler"

\* A variant of SerializeRead that compares the version after it read everything
SerializeReadCheckLast(buf) ==
    ReadAll(buf, IF buf[1] # CurVers THEN VersionError ELSE NoErr)

\* SymbolTable::Serialize with a reading Serializer (ser.rbuf) on the artifact buf
SerializeRead(buf) ==
    IF buf[1] # CurVers THEN Unread(VersionError, 1) ELSE ReadAll(buf, NoErr)

\* The table is as constructed
Fresh ==
    /\ identtable = <<>> /\ structtable = <<>> /\ fieldtable = <<>> /\ functiontable = <<>>
    /\ identstack = <<>> /\ scopelevels = <<>> /\ withstack = <<>>
    /\ filenames = <<>> /\ code = <<>> /\ linenumbers = <<>>

\* Serialize(ser, code, linenumbers), ser writing, at the end of a compilation
SerializeWriting(c, ln) ==
    /\ ser.buf = <<>>
    /\ ser' = [rbuf |-> FALSE, buf |-> SerializeWrite(c, ln), pos |-> 0]
    /\ code' = c
    /\ linenumbers' = ln
    /\ written' = Given(c, ln)
    /\ last' = Call("Serialize", "write", 0, NoErr, 0, 0)
    /\ UNCHANGED <<identvars, withvars, structvars, fieldvars, funvars,
                   uses_frame_state, filenames, saved, savedwith>>

\* Serialize(ser, code, linenumbers), ser reading the artifact written before,
\* whose stamp is v: that of this build or of another.  An artifact that is
\* accepted is loaded into a table as constructed.
SerializeReading(v) ==
    /\ ser.buf # <<>>
    /\ v = CurVers => Fresh
    /\ LET buf == [ser.buf EXCEPT ![1] = v]
           r == SerializeRead(buf)
       IN /\ ser' = [rbuf |-> TRUE, buf |-> buf, pos |-> r.pos]
          /\ uses_frame_state' = r.uses_frame_state
          /\ identtable' = r.identtable
          /\ functiontable' = r.functiontable
          /\ structtable' = r.structtable
          /\ fieldtable' = r.fieldtable
          /\ code' = r.code
          /\ filenames' = r.filenames
          /\ linenumbers' = r.linenumbers
          /\ last' = Call("Serialize", "read", 0, r.err, 0, 0)
    /\ UNCHANGED <<idents, identstack, scopelevels, withvars, structs, fields,
                   functions, saved, savedwith, written>>

\* SymbolTable::uses_frame_state (line 216) is public: the parser sets it
SetUsesFrameState ==
    /\ ~uses_frame_state
    /\ uses_frame_state' = TRUE
    /\ last' = Call("SetUsesFrameState", "", 0, NoErr, 0, 0)
    /\ UNCHANGED <<identvars, withvars, structvars, fieldvars, funvars,
                   filenames, code, linenumbers, ser, saved, savedwith, written>>

\* SymbolTable::filenames (line 209) is public: the parser appends each file
AddFilename(f) ==
    /\ filenames' = Append(filenames, f)
    /\ last' = Call("AddFilename", f, 0, NoErr, 0, 0)
    /\ UNCHANGED <<identvars, withvars, structvars, fieldvars, funvars,
                   uses_frame_state, code, linenumbers, ser, saved, savedwith, written>>

\* ------------------------------------------------ serialization: SpecSer
\* A compilation declares entities, then serializes; the artifact is read back,
\* by this build or another, into the same table or into a new one.
MaxSerFiles == 1

Codes == {<<>>, <<17, 3>>}
LineTables == {<<>>, <<[line |-> 1, fileidx |-> 0, bytecodestart |-> 0]>>}

Compiling == ser.buf = <<>>

ScopeStartSer == Compiling /\ Len(scopelevels) < MaxTablesDepth /\ ScopeStart
DeclareSer ==
    /\ Compiling
    /\ \E n \in IdentNames, l \in Lines : Declare(n, l, FALSE, NULL)
    /\ TotalEntities' <= MaxEntities
StructDeclSer ==
    /\ Compiling
    /\ \E n \in StructNames : StructDecl(n)
    /\ TotalEntities' <= MaxEntities
StructFieldDeclSer ==
    /\ Compiling
    /\ \E n \in FieldNames : StructFieldDecl(n, Len(structtable))
    /\ TotalEntities' <= MaxEntities
FunctionDeclSer ==
    /\ Compiling
    /\ \E n \in FunNames, a \in ArgCounts : FunctionDecl(n, a)
    /\ TotalEntities' <= MaxEntities
SetUsesFrameStateSer == Compiling /\ SetUsesFrameState
AddFilenameSer ==
    Compiling /\ Len(filenames) < MaxSerFiles /\ AddFilename("main.lobster")
SerializeWritingAny == \E c \in Codes, ln \in LineTables : SerializeWriting(c, ln)
SerializeReadingAny == \E v \in {CurVers, OtherVers} : SerializeReading(v)

\* ~SymbolTable() and SymbolTable(): the table that reads the artifact
NewTable ==
    /\ ser.buf # <<>>
    /\ ~Fresh
    /\ idents' = [n \in IdentNames |-> NULL]
    /\ identtable' = <<>>
    /\ identstack' = <<>>
    /\ scopelevels' = <<>>
    /\ withstack' = <<>>
    /\ withstacklevels' = <<>>
    /\ structs' = [n \in StructNames |-> ABSENT]
    /\ structtable' = <<>>
    /\ fields' = [n \in FieldNames |-> NULL]
    /\ fieldtable' = <<>>
    /\ functions' = [n \in FunNames |-> NULL]
    /\ functiontable' = <<>>
    /\ uses_frame_state' = FALSE
    /\ filenames' = <<>>
    /\ code' = <<>>
    /\ linenumbers' = <<>>
    /\ saved' = <<>>
    /\ savedwith' = <<>>
    /\ last' = Call("SymbolTable", "", 0, NoErr, 0, 0)
    /\ UNCHANGED <<ser, written>>

NextSer ==
    \/ ScopeStartSer \/ DeclareSer \/ StructDeclSer \/ StructFieldDeclSer
    \/ FunctionDeclSer \/ SetUsesFrameStateSer \/ AddFilenameSer
    \/ SerializeWritingAny \/ SerializeReadingAny \/ NewTable
SpecSer == Init /\ [][NextSer]_vars

\* C8: reading an artifact whose version stamp is not this build's fails, the
\* stamp is the only element consumed, and uses_frame_state, the four index
\* tables, the bytecode array, filenames and the line-number table are as they
\* were before the call.
C8_VersionMismatchReadsNothing ==
    [][(last'.op = "Serialize" /\ ser'.rbuf /\ ser'.buf[1] # CurVers)
         => /\ last'.err = VersionError
            /\ ser'.pos = 1
            /\ UNCHANGED <<uses_frame_state, identtable, functiontable, structtable,
                           fieldtable, code, filenames, linenumbers>>]_vars

\* An artifact of another build that holds Idents, bytecode and a file name was
\* refused by a table as constructed.
C8_Witness ==
    /\ last.op = "Serialize"
    /\ ser.rbuf
    /\ last.err = VersionError
    /\ ser.buf[1] = OtherVers
    /\ ser.buf[3] # <<>>
    /\ ser.buf[7] # <<>>
    /\ ser.buf[8] # <<>>
    /\ Fresh
    /\ ~uses_frame_state

\* ------------------------------------------------ dynamic scope: SpecDyn
\* Declarations with and without dynamic scope, for either SubFunction, in
\* nested scopes with with-scopes of record types declared beforehand
MaxDynIdents == 1
MaxDynDepth == 2
MaxDynStructs == 1
MaxDynFields == 1
SubFunctions == {1, 2}

ScopeStartDyn == Len(scopelevels) < MaxDynDepth /\ ScopeStart
DeclareDyn ==
    /\ \E n \in IdentNames, l \in Lines, d \in BOOLEAN, sf \in SubFunctions :
          Declare(n, l, d, sf)
    /\ Len(identtable') <= MaxDynIdents

StructDeclDyn == Len(structtable) < MaxDynStructs /\ StructDeclWith
StructFieldDeclDyn == Len(fieldtable) < MaxDynFields /\ StructFieldDeclWith

NextDyn ==
    \/ ScopeStartDyn \/ ScopeCleanup \/ DeclareDyn
    \/ StructDeclDyn \/ StructFieldDeclDyn \/ AddWithStructAny
SpecDyn == Init /\ [][NextDyn]_vars

\* C11: a declare with dynamic scope of a name that has a live binding returns
\* that Ident without error, whatever the with-scopes and the scope of the
\* binding, and leaves the live-binding map, identstack, scopelevels and every
\* Ident of identtable (its scope, prev and sf too) as they were.
C11_DynDeclareReturnsExisting ==
    [][(last'.op = "Declare" /\ last'.arg = 1 /\ idents[last'.name] # NULL)
         => /\ last'.err = NoErr
            /\ last'.ret = idents[last'.name]
            /\ UNCHANGED <<idents, identtable, identstack, scopelevels>>]_vars

\* A declare with dynamic scope has just returned an Ident of the innermost
\* scope whose name is a field of a with-scoped record type and whose sf is not
\* the one passed.
C11_Witness ==
    /\ last.op = "Declare"
    /\ last.arg = 1
    /\ last.err = NoErr
    /\ last.ret = idents[last.name]
    /\ identtable[last.ret].sf # last.ret2
    /\ identtable[last.ret].scope = Last(scopelevels)
    /\ LookupWithStruct(last.name).fld # NULL

\* ----------------------------------------- with-scopes again, under SpecWith
\* C12: AddWithStruct(t, id) fails with the type-used-twice error and leaves the
\* with-stack as it was when an entry of any open scope has the record type t,
\* and pushes (t, id) otherwise; no two with-stack entries have the same record
\* type.
C12_AddWithStructOncePerType ==
    /\ [](\A i, j \in 1..Len(withstack) :
             withstack[i].type = withstack[j].type => i = j)
    /\ [][last'.op = "AddWithStruct"
            => IF \E i \in 1..Len(withstack) : withstack[i].type = last'.arg
               THEN /\ last'.err = "type used twice in the same scope"
                    /\ withstack' = withstack
               ELSE /\ last'.err = NoErr
                    /\ withstack' = Append(withstack,
                                           [type |-> last'.arg, id |-> last'.ret2])]_vars

\* AddWithStruct has just failed for a record type whose entry was pushed in an
\* enclosing scope, below an entry of the innermost scope.
C12_Witness ==
    /\ last.op = "AddWithStruct"
    /\ last.err = "type used twice in the same scope"
    /\ withstacklevels # <<>>
    /\ Len(withstack) > Last(withstacklevels)
    /\ \E i \in 1..Last(withstacklevels) : withstack[i].type = last.arg

\* C17: a declare that does not take the dynamic-scope return, of a name that
\* LookupWithStruct resolves to a field of a with-scoped record type, fails with
\* the field-collision error; a failed declare leaves identtable, identstack and
\* the live-binding map as they were, and a successful one creates the Ident
\* whose idx is the size identtable had, so the idx of a failed declare goes to
\* the next successful one.
C17_FailedDeclareLeavesTables ==
    [][(last'.op = "Declare" /\ ~(last'.arg = 1 /\ idents[last'.name] # NULL))
         => /\ (LookupWithStruct(last'.name).err = NoErr
                  /\ LookupWithStruct(last'.name).fld # NULL)
                 => last'.err = "cannot define variable with same name as field"
            /\ last'.err # NoErr => UNCHANGED <<idents, identtable, identstack>>
            /\ last'.err = NoErr
                 => /\ Len(identtable') = Len(identtable) + 1
                    /\ last'.ret = Len(identtable')
                    /\ identtable'[last'.ret].idx = Len(identtable)
                    /\ SubSeq(identtable', 1, Len(identtable)) = identtable]_vars

\* A declare has just failed with the field-collision error, for a field of a
\* record type with-scoped in an enclosing scope, in a table that holds an
\* Ident and has room for the next one.
C17_Witness ==
    /\ last.op = "Declare"
    /\ last.err = "cannot define variable with same name as field"
    /\ Len(identtable) = 1
    /\ Len(scopelevels) = 2
    /\ Len(withstack) = Last(withstacklevels)
    /\ \E n \in IdentNames : ~FieldCollision(n) /\ idents[n] = NULL

\* C18: the ScopeCleanup that matches a ScopeStart leaves the with-stack with
\* exactly the entries, in the same order, that it held at that ScopeStart;
\* scopelevels and withstacklevels have the same length in every state.
C18_CleanupRestoresWithStack ==
    /\ [](Len(scopelevels) = Len(withstacklevels))
    /\ [][last'.op = "ScopeCleanup" => withstack' = Last(savedwith)]_vars

\* A scope was closed and an enclosing scope, with a with-scope of its own, is
\* still open; the record type of the latest Struct is not with-scoped.
C18_Witness ==
    /\ last.op = "ScopeCleanup"
    /\ Len(scopelevels) = 1
    /\ Len(withstack) = 1
    /\ Len(structtable) = 2
    /\ ~TypeOnWithStack(1)
    /\ Len(identtable) = 2
    /\ Len(identstack) = 1

\* ------------------------------------- functions in scopes: SpecFunScope
\* FunctionDecl and UnregisterFun at every nesting depth up to MaxFunDepth
MaxFunDepth == 2
MaxScopeFuns == 2

ScopeStartFun == Len(scopelevels) < MaxFunDepth /\ ScopeStart
FunctionDeclScope ==
    /\ \E n \in FunNames, a \in ArgCounts : FunctionDecl(n, a)
    /\ Len(functiontable') <= MaxScopeFuns

NextFunScope == ScopeStartFun \/ ScopeCleanup \/ FunctionDeclScope \/ UnregisterFunAny
SpecFunScope == Init /\ [][NextFunScope]_vars

\* C13: FunctionDecl(name, nargs) for a name whose registered Function has a
\* scopelevel other than the current nesting depth fails with the
\* different-scope-level error, whatever nargs is, and leaves functiontable (the
\* sibling links with it) and the name map as they were; a Function and its
\* sibf always have the same scopelevel.
C13_VariationAtOtherLevelFails ==
    /\ [](\A f \in 1..Len(functiontable) :
             functiontable[f].sibf # NULL
               => functiontable[functiontable[f].sibf].scopelevel
                    = functiontable[f].scopelevel)
    /\ [][(/\ last'.op = "FunctionDecl"
           /\ functions[last'.name] # NULL
           /\ functiontable[functions[last'.name]].scopelevel # Len(scopelevels))
            => /\ last'.err = "variation of function at a different scope level"
               /\ UNCHANGED <<functiontable, functions>>]_vars

\* FunctionDecl has just failed with the different-scope-level error for an
\* arity that a sibling behind the head of the registered chain has.
C13_Witness ==
    /\ last.op = "FunctionDecl"
    /\ last.err = "variation of function at a different scope level"
    /\ functions[last.name] # NULL
    /\ functiontable[functions[last.name]].nargs # last.arg
    /\ \E g \in ChainSet(functiontable, functions[last.name]) :
          functiontable[g].nargs = last.arg

\* C16: UnregisterFun(f) raises no error and leaves functiontable, the sibling
\* links with it, and the mapping of every other name as they were; it removes
\* the mapping of f's name when there is one and changes nothing when there is
\* none, as in a second call with no declaration in between.
C16_UnregisterFunIdempotent ==
    [][last'.op = "UnregisterFun"
         => /\ last'.err = NoErr
            /\ functiontable' = functiontable
            /\ last'.name = functiontable[last'.arg].name
            /\ functions'[last'.name] = NULL
            /\ \A n \in FunNames : n # last'.name => functions'[n] = functions[n]
            /\ functions[last'.name] = NULL => functions' = functions]_vars

\* UnregisterFun has just been called for a Function with a sibling whose name
\* had no mapping any more, while the other name has one.
C16_Witness ==
    /\ last.op = "UnregisterFun"
    /\ last.ret = NULL
    /\ functiontable[last.arg].sibf # NULL
    /\ \E n \in FunNames : functions[n] # NULL

\* ----------------------------------------- private bindings: SpecInclude
\* ScopeStart, declarations with and without dynamic scope, ScopeCleanup,
\* private definitions and EndOfInclude
MaxIncIdents == 3
MaxIncDepth == 2

ScopeStartInc == Len(scopelevels) < MaxIncDepth /\ ScopeStart
DeclareInc ==
    /\ \E n \in IdentNames, l \in Lines, d \in BOOLEAN : Declare(n, l, d, NULL)
    /\ Len(identtable') <= MaxIncIdents
SetPrivateAny == \E p \in 1..MaxIncIdents : SetPrivate(p)

NextInclude ==
    ScopeStartInc \/ DeclareInc \/ ScopeCleanup \/ SetPrivateAny \/ EndOfInclude
SpecInclude == Init /\ [][NextInclude]_vars

\* The Idents that the next ScopeCleanup pops
Popped == {identstack[i] : i \in (Last(scopelevels) + 1)..Len(identstack)}

\* C14: EndOfInclude removes from the live-binding map the names whose live
\* binding is private and has no prev, and leaves the other bindings,
\* identstack, identtable and the scope stacks as they were; a ScopeCleanup
\* leaves unbound every name that was unbound before it, the name of a pruned
\* Ident it pops too, and leaves as it was the binding of every name of which
\* it pops no Ident.
C14_EndOfIncludePrunesPrivate ==
    /\ [][last'.op = "EndOfInclude"
            => /\ idents' = [n \in IdentNames |->
                               IF /\ idents[n] # NULL
                                  /\ identtable[idents[n]].isprivate
                                  /\ identtable[idents[n]].prev = NULL
                               THEN NULL ELSE idents[n]]
               /\ UNCHANGED <<identstack, identtable, scopelevels,
                              withstack, withstacklevels>>]_vars
    /\ [][last'.op = "ScopeCleanup"
            => \A n \in IdentNames :
                  /\ idents[n] = NULL => idents'[n] = NULL
                  /\ (\A p \in Popped : identtable[p].name # n)
                       => idents'[n] = idents[n]]_vars

\* EndOfInclude has just pruned a private Ident that is still on identstack, in
\* an inner scope, and has left the binding of the other name, a non-private
\* Ident that shadows a private one.
C14_Witness ==
    /\ last.op = "EndOfInclude"
    /\ Len(scopelevels) = 2
    /\ \E p \in Popped :
          /\ identtable[p].isprivate
          /\ idents[identtable[p].name] = NULL
    /\ \E n \in IdentNames :
          /\ idents[n] # NULL
          /\ ~identtable[idents[n]].isprivate
          /\ identtable[idents[n]].prev # NULL
          /\ identtable[identtable[idents[n]].prev].isprivate

\* The position of the Ident p on identstack (0 when it is not there)
StackPos(p) ==
    IF \E i \in 1..Len(identstack) : identstack[i] = p
    THEN CHOOSE i \in 1..Len(identstack) : identstack[i] = p
    ELSE 0

\* Each Ident popped by a ScopeCleanup of the table (ids, stack) down to level
\* is, when it is popped, the live binding of its name if the name has one
RECURSIVE PopsOwnBinding(_, _, _)
PopsOwnBinding(ids, stack, level) ==
    IF Len(stack) > level
    THEN /\ ids[identtable[Last(stack)].name] \in {NULL, Last(stack)}
         /\ PopsOwnBinding(PopBinding(ids, Last(stack)), Front(stack), level)
    ELSE TRUE

\* C19: every live binding is an Ident on identstack; the prev of an Ident has
\* its name, a smaller idx and a smaller scope snapshot, and lies below it on
\* identstack while the Ident is there (so a shadow chain has no cycle); each
\* Ident that a ScopeCleanup pops is the live binding of its name, if the name
\* has one.
C19_ShadowChainsWellFormed ==
    /\ \A n \in IdentNames : idents[n] # NULL => StackPos(idents[n]) > 0
    /\ \A p \in 1..Len(identtable) :
          identtable[p].prev # NULL
            => LET q == identtable[p].prev IN
               /\ identtable[q].name = identtable[p].name
               /\ identtable[q].idx < identtable[p].idx
               /\ identtable[q].scope < identtable[p].scope
               /\ StackPos(p) > 0 => (StackPos(q) > 0 /\ StackPos(q) < StackPos(p))
    /\ scopelevels # <<>> => PopsOwnBinding(idents, identstack, Last(scopelevels))

\* On identstack: an Ident pruned by EndOfInclude, above it the Ident declared
\* for its name afterwards, and above that the Ident that shadows it.
C19_Witness ==
    /\ Len(identstack) = 3
    /\ identtable[identstack[1]].isprivate
    /\ identtable[identstack[2]].name = identtable[identstack[1]].name
    /\ identtable[identstack[2]].prev = NULL
    /\ identtable[identstack[3]].prev = identstack[2]
    /\ idents[identtable[identstack[3]].name] = identstack[3]

\* ------------------------------------------ the round trip, under SpecSer
\* C15: the artifact holds, in this order, the version stamp, uses_frame_state,
\* the identifiers, functions, structs and fields, the bytecode, the file names
\* and the line numbers; reading it under the same stamp into a table as
\* constructed consumes the nine elements and gives uses_frame_state and the
\* bytecode, file-name and line-number arrays that were written, and index
\* tables with as many entries as were written, with the name and idx that
\* were written at each position.
C15_RoundTrip ==
    /\ [][(last'.op = "Serialize" /\ last'.name = "write")
            => /\ Len(ser'.buf) = 9
               /\ ser'.buf[1] = CurVers
               /\ ser'.buf[2] = uses_frame_state
               /\ NamesAndIdx(ser'.buf[3]) = NamesAndIdx(identtable)
               /\ NamesAndIdx(ser'.buf[4]) = NamesAndIdx(functiontable)
               /\ NamesAndIdx(ser'.buf[5]) = NamesAndIdx(structtable)
               /\ NamesAndIdx(ser'.buf[6]) = NamesAndIdx(fieldtable)
               /\ ser'.buf[7] = code'
               /\ ser'.buf[8] = filenames
               /\ ser'.buf[9] = linenumbers']_vars
    /\ [][(last'.op = "Serialize" /\ last'.name = "read" /\ ser'.buf[1] = CurVers)
            => /\ last'.err = NoErr
               /\ ser'.pos = 9
               /\ uses_frame_state' = written.uses_frame_state
               /\ NamesAndIdx(identtable') = written.identtable
               /\ NamesAndIdx(functiontable') = written.functiontable
               /\ NamesAndIdx(structtable') = written.structtable
               /\ NamesAndIdx(fieldtable') = written.fieldtable
               /\ code' = written.code
               /\ filenames' = written.filenames
               /\ linenumbers' = written.linenumbers]_vars

\* An artifact was read under the same stamp into a new table: two Idents,
\* uses_frame_state set, bytecode, a file name and a line number.
C15_Witness ==
    /\ last.op = "Serialize"
    /\ last.name = "read"
    /\ last.err = NoErr
    /\ \A n \in IdentNames : idents[n] = NULL
    /\ Len(identtable) = 2
    /\ identtable[2].idx = 1
    /\ uses_frame_state
    /\ code # <<>>
    /\ filenames # <<>>
    /\ linenumbers # <<>>

\* ------------------------------------------------- StructIdx: SpecStructIdx
\* Record types are declared, given fields while they are the latest, looked
\* up by StructIdx and unregistered
NargsBefore == {0, 7}

StructFieldDeclLatest == \E n \in FieldNames : StructFieldDecl(n, Len(structtable))
StructIdxAny == \E n \in StructNames, a \in NargsBefore : StructIdx(n, a)

NextStructIdx ==
    StructDeclAny \/ StructFieldDeclLatest \/ UnregisterStructAny \/ StructIdxAny
SpecStructIdx == Init /\ [][NextStructIdx]_vars

\* C20: for a name with a live struct mapping, StructIdx(name) returns the idx
\* and the number of fields of the Struct that StructUse(name) returns.
C20_StructIdxAgreesWithStructUse ==
    (last.op = "StructIdx" /\ LiveStruct(structs, last.name))
      => LET st == structtable[StructUseOutcome(structs, last.name).ret] IN
         /\ last.ret = st.idx
         /\ last.ret2 = Len(st.fields)

====
